---- MODULE Spec2Model ----
(***************************************************************************)
(* Payment reconciliation of the admissions portal (admissions/views.py,   *)
(* admissions/models.py): payment-intent creation, redirect-verify, the    *)
(* PhonePe webhook callback, the status poll and the one-shot notifier.    *)
(*                                                                         *)
(* Spec      handles one request at a time (every view runs to completion).*)
(* ConcSpec  interleaves the database statements of two request handlers   *)
(*           working on the same Payment row.                              *)
(* SeqSpec   runs the same statements one request after the other.        *)
(* MapSpec   delivers callbacks and polls over the whole vocabulary of     *)
(*           provider states and response codes.                           *)
(* UniqSpec  creates intents for two admissions.                           *)
(* SchemeSpec signs callback payloads and verifies them.                   *)
(* AdminSpec adds the admin action mark_paid and the admission_success     *)
(*           page to the requests of Spec.                                 *)
(* CreateSpec interleaves the lookup and the lazy create of start_payment  *)
(*           requests over the Payment table.                              *)
(***************************************************************************)
EXTENDS Integers, Sequences, FiniteSets, TLC

\* ------------------------------------------------------------------ bounds
\* The clock takes the values 1..MaxClock (timezone.now(), int(time.time())).
MaxClock == 2

\* None for the nullable DateTimeFields notified_at and paid_at.
None == 0

\* ------------------------------------------------------------- enumerations
PENDING == "Pending"
PAID == "Paid"
FAILED == "Failed"
PaymentStatus == {PENDING, PAID, FAILED}

RAZORPAY == "Razorpay"
PHONEPE == "PhonePe"

ONLINE == "Online"

\* --------------------------------------------------------------- settings
\* django.conf.settings as read through getattr(settings, ...).  The SMS and
\* WhatsApp entries stand for _sms_configured() / _whatsapp_configured().
DefaultSettings ==
    [ PAYMENT_GATEWAY |-> PHONEPE,
      RAZORPAY_KEY_ID |-> "rzp_id",
      RAZORPAY_KEY_SECRET |-> "rzp_secret",
      PHONEPE_MERCHANT_ID |-> "M1",
      PHONEPE_SALT_KEY |-> "salt",
      PHONEPE_SALT_INDEX |-> "1",
      PHONEPE_BASE_URL |-> "https://phonepe",
      PHONEPE_VERIFY_CALLBACK |-> TRUE,
      SEND_PAYMENT_NOTIFICATIONS |-> TRUE,
      SMS_CONFIGURED |-> TRUE,
      WHATSAPP_CONFIGURED |-> FALSE ]

\* The deployments explored: the default one and its variations.
Configs ==
    { DefaultSettings,
      [DefaultSettings EXCEPT !.PAYMENT_GATEWAY = RAZORPAY, !.RAZORPAY_KEY_SECRET = ""],
      [DefaultSettings EXCEPT !.PAYMENT_GATEWAY = RAZORPAY, !.RAZORPAY_KEY_ID = ""],
      [DefaultSettings EXCEPT !.PHONEPE_SALT_KEY = ""],
      [DefaultSettings EXCEPT !.PHONEPE_BASE_URL = ""],
      [DefaultSettings EXCEPT !.PHONEPE_VERIFY_CALLBACK = FALSE, !.RAZORPAY_KEY_SECRET = ""],
      [DefaultSettings EXCEPT !.SEND_PAYMENT_NOTIFICATIONS = FALSE],
      [DefaultSettings EXCEPT !.SMS_CONFIGURED = FALSE],
      [DefaultSettings EXCEPT !.PAYMENT_GATEWAY = RAZORPAY, !.WHATSAPP_CONFIGURED = TRUE,
                              !.PHONEPE_BASE_URL = ""] }

\* --------------------------------------------------------- JSON documents
\* A decoded gateway document: the fields the views read from it.
\*   state, responseCode, transactionId, utr, merchantTransactionId live under
\*   "data"; code is top-level; url is data.instrumentResponse.redirectInfo.url.
Doc(mtid, state, responseCode, code, txn, utr, url) ==
    [ merchantTransactionId |-> mtid, state |-> state, responseCode |-> responseCode,
      code |-> code, transactionId |-> txn, utr |-> utr, url |-> url ]

\* Provider states delivered by callbacks and polls.
GatewayStates == {"COMPLETED", "FAILED", "PENDING"}

StatusDocs(mtids) ==
    { Doc(m, s, "", "", "T1", "U1", "") : m \in mtids, s \in GatewayStates }

\* json.dumps(x) stored in the TextField gateway_response; blank is <<>>.
json_dumps(doc) == <<doc>>

\* ------------------------------------------------------ signature verifier
\* hmac.new(key, msg, sha256).hexdigest() and hashlib.sha256(raw).hexdigest()
\* as injective functions of their inputs.
hmac_sha256(key, message) == <<"hmac", key, message>>
sha256(payload, suffix) == <<"sha256", payload, suffix>>

\* f"{order_id}|{payment_id}"
razorpay_message(order_id, payment_id) == <<order_id, "|", payment_id>>

_verify_razorpay_signature_unguarded(order_id, payment_id, signature, key_secret) ==
    hmac_sha256(key_secret, razorpay_message(order_id, payment_id)) = signature

_verify_razorpay_signature(order_id, payment_id, signature, key_secret) ==
    IF ~(order_id # "" /\ payment_id # "" /\ signature # <<>> /\ key_secret # "")
    THEN FALSE
    ELSE hmac_sha256(key_secret, razorpay_message(order_id, payment_id)) = signature

_phonepe_checksum_without_index(payload_b64, api_path, salt_key, salt_index) ==
    <<sha256(payload_b64, api_path \o salt_key), "">>

\* f"{sha256(payload_b64 + api_path + salt_key)}###{salt_index}"
_phonepe_checksum(payload_b64, api_path, salt_key, salt_index) ==
    <<sha256(payload_b64, api_path \o salt_key), salt_index>>

_verify_phonepe_callback_accept_absent(response_b64, header_value, salt_key, salt_index) ==
    header_value = <<>> \/ <<sha256(response_b64, salt_key), salt_index>> = header_value

_verify_phonepe_callback(response_b64, header_value, salt_key, salt_index) ==
    IF header_value = <<>>
    THEN FALSE
    ELSE <<sha256(response_b64, salt_key), salt_index>> = header_value

\* ---------------------------------------------------------- status mapping
\* str(x).upper() on the provider vocabulary used here.
upper(s) ==
    CASE s = "completed" -> "COMPLETED"
      [] s = "success" -> "SUCCESS"
      [] s = "payment_success" -> "PAYMENT_SUCCESS"
      [] s = "failed" -> "FAILED"
      [] s = "error" -> "ERROR"
      [] s = "payment_error" -> "PAYMENT_ERROR"
      [] s = "pending" -> "PENDING"
      [] OTHER -> s

_map_phonepe_status(state, response_code) ==
    LET state_upper == upper(state)
        code_upper == upper(response_code)
    IN  IF state_upper \in {"COMPLETED", "SUCCESS"} \/ code_upper \in {"PAYMENT_SUCCESS", "SUCCESS"}
        THEN PAID
        ELSE IF state_upper \in {"FAILED", "ERROR"} \/ code_upper \in {"PAYMENT_ERROR", "FAILED"}
        THEN FAILED
        ELSE PENDING

\* ------------------------------------------------------------------ state
VARIABLES
    settings,     \* the deployment's configuration (fixed at start-up)
    now,          \* the clock
    admissions,   \* Admission rows: id -> [fee_amount, fee_paid, fee_status]
    payments,     \* Payment rows keyed by their admission (OneToOneField)
    response,     \* the outcome of the request handled by the last step
    handlers      \* ConcSpec: the in-flight request handlers

vars == <<settings, now, admissions, payments, response, handlers>>

\* Payment.objects.create(admission=a, amount=..., status=PENDING).  The columns
\* created_at and signature are written and never read back; they are left out.
NewPayment(pk, amount) ==
    [ pk |-> pk, amount |-> amount, gateway |-> "", status |-> PENDING, method |-> "",
      reference_id |-> "", order_id |-> "", payment_id |-> "",
      gateway_response |-> <<>>, notified_at |-> None, paid_at |-> None ]

NewAdmission(fee_amount) ==
    [ fee_amount |-> fee_amount, fee_paid |-> 0, fee_status |-> PENDING ]

\* obj.save(update_fields=fields): only the named columns of the row are written.
save(row, obj, update_fields) ==
    [ f \in DOMAIN row |-> IF f \in update_fields THEN obj[f] ELSE row[f] ]

\* queryset.first() on an unordered queryset orders by primary key.
first(db, matching) ==
    IF matching = {} THEN 0
    ELSE CHOOSE a \in matching : \A b \in matching : db[a].pk <= db[b].pk

filter_order_id_any(db, order_id) ==
    first(db, DOMAIN db)

\* Payment.objects.filter(order_id=order_id).first(); 0 when there is none.
filter_order_id(db, order_id) ==
    first(db, { a \in DOMAIN db : db[a].order_id = order_id })

\* Payment.objects.filter(admission=a).first(); 0 when there is none.
filter_admission(db, a) ==
    first(db, { b \in DOMAIN db : b = a })

\* The outcome of a request: the view, its answer, the Payment it worked on (0 for
\* none), and the number of outbound gateway calls, notification sends attempted
\* and notifications sent.
Resp(op, result, adm, calls, attempts, sent) ==
    [ op |-> op, result |-> result, adm |-> adm,
      calls |-> calls, attempts |-> attempts, sent |-> sent ]

NoRequest == Resp("none", "", 0, 0, 0, 0)

\* What a view does to the database, with its outcome.
Effect(db, adms, resp) == [ payments |-> db, admissions |-> adms, response |-> resp ]

\* ---------------------------------------------------------------- notifier
\* _maybe_send_payment_notifications(admission, payment) on the in-memory payment
\* object.  sms_ok / whatsapp_ok are what the providers answer when asked.
\*   attempts: channel sends issued;  sent: 1 when sms_sent or whatsapp_sent;
\*   write: payment.save(update_fields=["notified_at"]) was executed.
_maybe_send_payment_notifications_ungated(payment, sms_ok, whatsapp_ok, t) ==
    LET sms_sent == settings.SMS_CONFIGURED /\ sms_ok
        whatsapp_sent == settings.WHATSAPP_CONFIGURED /\ whatsapp_ok
        attempts == (IF settings.SMS_CONFIGURED THEN 1 ELSE 0)
                    + (IF settings.WHATSAPP_CONFIGURED THEN 1 ELSE 0)
    IN  IF sms_sent \/ whatsapp_sent
        THEN [ attempts |-> attempts, sent |-> 1, write |-> TRUE,
               payment |-> [payment EXCEPT !.notified_at = t] ]
        ELSE [ attempts |-> attempts, sent |-> 0, write |-> FALSE, payment |-> payment ]

_maybe_send_payment_notifications(payment, sms_ok, whatsapp_ok, t) ==
    IF ~settings.SEND_PAYMENT_NOTIFICATIONS
    THEN [ attempts |-> 0, sent |-> 0, write |-> FALSE, payment |-> payment ]
    ELSE IF payment.notified_at # None
    THEN [ attempts |-> 0, sent |-> 0, write |-> FALSE, payment |-> payment ]
    ELSE LET sms_sent == settings.SMS_CONFIGURED /\ sms_ok
             whatsapp_sent == settings.WHATSAPP_CONFIGURED /\ whatsapp_ok
             attempts == (IF settings.SMS_CONFIGURED THEN 1 ELSE 0)
                         + (IF settings.WHATSAPP_CONFIGURED THEN 1 ELSE 0)
         IN  IF sms_sent \/ whatsapp_sent
             THEN [ attempts |-> attempts, sent |-> 1, write |-> TRUE,
                    payment |-> [payment EXCEPT !.notified_at = t] ]
             ELSE [ attempts |-> attempts, sent |-> 0, write |-> FALSE, payment |-> payment ]

save_notified_always(row, n) ==
    save(row, [n.payment EXCEPT !.notified_at = 1], {"notified_at"})

\* The notified_at column after the notifier ran on `payment`.
save_notified(row, n) ==
    IF n.write THEN save(row, n.payment, {"notified_at"}) ELSE row

\* ------------------------------------------------------- payment_verify
verify_failed_fields_keeping_status(payment, payment_id) ==
    [payment EXCEPT !.payment_id = payment_id]

\* Lines 291-293: the in-memory payment after a failed verification.
verify_failed_fields(payment, payment_id) ==
    [payment EXCEPT !.status = FAILED, !.payment_id = payment_id]

\* Lines 298-301: the in-memory payment after a successful verification.
verify_paid_fields(payment, payment_id, t) ==
    [payment EXCEPT !.status = PAID, !.payment_id = payment_id, !.paid_at = t]

admission_paid_fields_adding(admission, payment) ==
    [admission EXCEPT !.fee_status = PAID, !.fee_paid = @ + payment.amount]

\* admission.fee_status = "Paid"; admission.fee_paid = payment.amount
admission_paid_fields(admission, payment) ==
    [admission EXCEPT !.fee_status = PAID, !.fee_paid = payment.amount]

payment_verify(order_id, payment_id, signature, t, sms_ok, whatsapp_ok) ==
    LET a == filter_order_id(payments, order_id) IN
    IF a = 0
    THEN Effect(payments, admissions, Resp("payment_verify", "not_found", 0, 0, 0, 0))
    ELSE IF ~_verify_razorpay_signature(order_id, payment_id, signature,
                                         settings.RAZORPAY_KEY_SECRET)
    THEN LET obj == verify_failed_fields(payments[a], payment_id) IN
         Effect([payments EXCEPT ![a] = save(@, obj, {"status", "payment_id"})],
                admissions,
                Resp("payment_verify", "verification_failed", a, 0, 0, 0))
    ELSE LET obj == verify_paid_fields(payments[a], payment_id, t)
             row == save(payments[a], obj, {"status", "payment_id", "paid_at"})
             adm == admission_paid_fields(admissions[a], obj)
             n   == _maybe_send_payment_notifications(obj, sms_ok, whatsapp_ok, t)
         IN  Effect([payments EXCEPT ![a] = save_notified(row, n)],
                    [admissions EXCEPT ![a] = save(@, adm, {"fee_status", "fee_paid"})],
                    Resp("payment_verify", "success", a, 0, n.attempts, n.sent))

\* ----------------------------------------------- _update_payment_from_phonepe
\* Lines 863-877: the in-memory payment after the decoded document is applied.
\* (The documents modelled carry state and responseCode under "data", utr but no
\* providerReferenceId.)
phonepe_fields(payment, decoded, t) ==
    LET state == decoded.state
        response_code == IF decoded.responseCode # "" THEN decoded.responseCode ELSE decoded.code
        status == _map_phonepe_status(state, response_code)
    IN  [payment EXCEPT !.gateway = PHONEPE, !.payment_id = decoded.transactionId,
                        !.reference_id = decoded.utr,
                        !.gateway_response = json_dumps(decoded),
                        !.status = status,
                        !.paid_at = IF status = PAID THEN t ELSE @]

PhonepeSaveFields ==
    {"gateway", "payment_id", "reference_id", "gateway_response", "status", "paid_at"}

_update_payment_from_phonepe_any_status(a, decoded, t, sms_ok, whatsapp_ok, op, result, calls) ==
    LET obj == phonepe_fields(payments[a], decoded, t)
        row == save(payments[a], obj, PhonepeSaveFields)
        adm == admission_paid_fields(admissions[a], obj)
        n   == _maybe_send_payment_notifications(obj, sms_ok, whatsapp_ok, t)
    IN  Effect([payments EXCEPT ![a] = save_notified(row, n)],
               [admissions EXCEPT ![a] = save(@, adm, {"fee_status", "fee_paid"})],
               Resp(op, result, a, calls, n.attempts, n.sent))

\* _update_payment_from_phonepe(payment, decoded) on the Payment of admission a,
\* answering `op` with `result` when it is done.
_update_payment_from_phonepe(a, decoded, t, sms_ok, whatsapp_ok, op, result, calls) ==
    LET obj == phonepe_fields(payments[a], decoded, t)
        row == save(payments[a], obj, PhonepeSaveFields)
    IN  IF obj.status = PAID
        THEN LET adm == admission_paid_fields(admissions[a], obj)
                 n   == _maybe_send_payment_notifications(obj, sms_ok, whatsapp_ok, t)
             IN  Effect([payments EXCEPT ![a] = save_notified(row, n)],
                        [admissions EXCEPT ![a] = save(@, adm, {"fee_status", "fee_paid"})],
                        Resp(op, result, a, calls, n.attempts, n.sent))
        ELSE Effect([payments EXCEPT ![a] = row], admissions, Resp(op, result, a, calls, 0, 0))

\* -------------------------------------------------------- gateway client
\* What an outbound call can end in: RuntimeError raised by the client ("error"),
\* any other exception ("crash"), or a decoded JSON reply ("ok") carrying the
\* order id (Razorpay; "" when the key is absent) and the redirect URL (PhonePe;
\* "" when absent).
Reply(kind, id, url) == [ kind |-> kind, id |-> id, url |-> url ]

\* How urlopen(...), response.read() and json.loads(...) can go: an HTTP error status
\* (HTTPError), no connection (URLError), a timeout while the response is read
\* (TimeoutError), a 2xx body that is not JSON (JSONDecodeError), a JSON body.
CallOutcomes == {"http_error", "url_error", "read_timeout", "bad_json", "json"}

\* The try/except around urlopen and the json.loads after it, the same in
\* _create_razorpay_order, _phonepe_post_request and _phonepe_fetch_status: HTTPError
\* and URLError are raised again as RuntimeError, nothing else is caught.
gateway_client(outcome, id, url) ==
    IF outcome \in {"http_error", "url_error"} THEN Reply("error", "", "")
    ELSE IF outcome = "json" THEN Reply("ok", id, url)
    ELSE Reply("crash", "", "")

_get_phonepe_config_complete ==
    /\ settings.PHONEPE_MERCHANT_ID # ""
    /\ settings.PHONEPE_SALT_KEY # ""
    /\ settings.PHONEPE_SALT_INDEX # ""
    /\ settings.PHONEPE_BASE_URL # ""

\* f"ADM{admission.id}{int(time.time())}"
phonepe_order_id(a, t) == "ADM" \o ToString(a) \o ToString(t)

\* _start_phonepe_payment(request, admission, payment) for admission a whose Payment
\* row is `payment`: how it ends, the row afterwards, the outbound calls made.
_start_phonepe_payment(a, payment, reply, t) ==
    IF ~_get_phonepe_config_complete
    THEN [ result |-> "config_missing", row |-> payment, calls |-> 0 ]
    ELSE LET obj0 == IF payment.order_id = ""
                     THEN [payment EXCEPT !.order_id = phonepe_order_id(a, t)]
                     ELSE payment
         IN  IF reply.kind = "error"
             THEN [ result |-> "gateway_error", row |-> payment, calls |-> 1 ]
             ELSE IF reply.kind = "crash"
             THEN [ result |-> "server_error", row |-> payment, calls |-> 1 ]
             ELSE LET obj == [obj0 EXCEPT
                                 !.gateway = PHONEPE,
                                 !.amount = admissions[a].fee_amount,
                                 !.method = ONLINE,
                                 !.status = PENDING,
                                 !.gateway_response =
                                     json_dumps(Doc("", "", "", "", "", "", reply.url))]
                      row == save(payment, obj, {"gateway", "amount", "method", "status",
                                                 "order_id", "gateway_response"})
                  IN  IF reply.url = ""
                      THEN [ result |-> "gateway_error", row |-> row, calls |-> 1 ]
                      ELSE [ result |-> "redirect", row |-> row, calls |-> 1 ]

start_razorpay_payment_retrying(a, payment, reply) ==
    IF settings.RAZORPAY_KEY_ID = "" \/ settings.RAZORPAY_KEY_SECRET = ""
    THEN [ result |-> "config_missing", row |-> payment, calls |-> 0 ]
    ELSE IF reply.kind = "error"
    THEN [ result |-> "gateway_error", row |-> payment, calls |-> 2 ]
    ELSE IF reply.kind = "crash"
    THEN [ result |-> "server_error", row |-> payment, calls |-> 1 ]
    ELSE LET obj == [payment EXCEPT
                        !.gateway = RAZORPAY,
                        !.order_id = reply.id,
                        !.amount = admissions[a].fee_amount,
                        !.method = ONLINE,
                        !.status = PENDING]
         IN  [ result |-> "checkout",
               row |-> save(payment, obj, {"gateway", "order_id", "amount", "method", "status"}),
               calls |-> 1 ]

\* Lines 243-275 of start_payment: the Razorpay branch.
start_razorpay_payment(a, payment, reply) ==
    IF settings.RAZORPAY_KEY_ID = "" \/ settings.RAZORPAY_KEY_SECRET = ""
    THEN [ result |-> "config_missing", row |-> payment, calls |-> 0 ]
    ELSE IF reply.kind = "error"
    THEN [ result |-> "gateway_error", row |-> payment, calls |-> 1 ]
    ELSE IF reply.kind = "crash"
    THEN [ result |-> "server_error", row |-> payment, calls |-> 1 ]
    ELSE LET obj == [payment EXCEPT
                        !.gateway = RAZORPAY,
                        !.order_id = reply.id,
                        !.amount = admissions[a].fee_amount,
                        !.method = ONLINE,
                        !.status = PENDING]
         IN  [ result |-> "checkout",
               row |-> save(payment, obj, {"gateway", "order_id", "amount", "method", "status"}),
               calls |-> 1 ]

\* ----------------------------------------------------------- start_payment
start_payment(a, reply, t) ==
    LET db == IF filter_admission(payments, a) # 0
              THEN payments
              ELSE payments @@ (a :> NewPayment(Cardinality(DOMAIN payments) + 1,
                                                admissions[a].fee_amount))
        payment == db[a]
        r == IF payment.status = PAID
             THEN [ result |-> "already_paid", row |-> payment, calls |-> 0 ]
             ELSE IF admissions[a].fee_amount <= 0
             THEN [ result |-> "fee_not_set", row |-> payment, calls |-> 0 ]
             ELSE IF settings.PAYMENT_GATEWAY = PHONEPE
             THEN _start_phonepe_payment(a, payment, reply, t)
             ELSE start_razorpay_payment(a, payment, reply)
    IN  Effect([db EXCEPT ![a] = r.row], admissions,
               Resp("start_payment", r.result, a, r.calls, 0, 0))

\* -------------------------------------------------------- phonepe_callback
\* A callback request: the shape of its body, the content of the base64 string in
\* its "response" field (what it decodes to), and its X-VERIFY header.
\*   body: notjson | nonobject | noresponse | envelope
\*   enc:  badb64 | notjson | nonobject | object
\*   hdr:  absent | valid | withpath | wrongsalt
CallbackRequest(body, enc, doc, hdr) ==
    [ body |-> body, enc |-> enc, doc |-> doc, hdr |-> hdr ]

NoDoc == Doc("", "", "", "", "", "", "")

HeaderTags == {"absent", "valid", "withpath", "wrongsalt"}

\* The base64 string carried in the body's "response" field.
response_b64(req) == [ enc |-> req.enc, doc |-> req.doc ]

\* The X-VERIFY header value the sender put on the request.
header_value(req) ==
    CASE req.hdr = "absent" -> <<>>
      [] req.hdr = "valid" ->
            <<sha256(response_b64(req), settings.PHONEPE_SALT_KEY), settings.PHONEPE_SALT_INDEX>>
      [] req.hdr = "withpath" ->
            _phonepe_checksum(response_b64(req), "/pg/v1/pay",
                              settings.PHONEPE_SALT_KEY, settings.PHONEPE_SALT_INDEX)
      [] OTHER ->
            <<sha256(response_b64(req), "another_salt"), settings.PHONEPE_SALT_INDEX>>

callback_rejection_unnamed(req) ==
    IF req.body = "notjson" THEN "Invalid payload"
    ELSE IF req.body = "nonobject" THEN "server_error"
    ELSE IF req.body = "noresponse" THEN "Missing response"
    ELSE IF settings.PHONEPE_MERCHANT_ID = "" \/ settings.PHONEPE_SALT_KEY = ""
            \/ settings.PHONEPE_SALT_INDEX = ""
    THEN "PhonePe not configured"
    ELSE IF settings.PHONEPE_VERIFY_CALLBACK
            /\ ~_verify_phonepe_callback(response_b64(req), header_value(req),
                                         settings.PHONEPE_SALT_KEY, settings.PHONEPE_SALT_INDEX)
    THEN "Signature mismatch"
    ELSE IF req.enc \in {"badb64", "notjson"} THEN "Invalid response data"
    ELSE IF req.enc = "nonobject" THEN "server_error"
    ELSE IF req.doc.merchantTransactionId = "" THEN "Bad request"
    ELSE IF filter_order_id(payments, req.doc.merchantTransactionId) = 0
    THEN "Payment not found"
    ELSE ""

\* Lines 808-839: the answer of phonepe_callback when it returns before applying
\* the outcome, "" when it reaches _update_payment_from_phonepe.
callback_rejection(req) ==
    IF req.body = "notjson" THEN "Invalid payload"
    ELSE IF req.body = "nonobject" THEN "server_error"
    ELSE IF req.body = "noresponse" THEN "Missing response"
    ELSE IF settings.PHONEPE_MERCHANT_ID = "" \/ settings.PHONEPE_SALT_KEY = ""
            \/ settings.PHONEPE_SALT_INDEX = ""
    THEN "PhonePe not configured"
    ELSE IF settings.PHONEPE_VERIFY_CALLBACK
            /\ ~_verify_phonepe_callback(response_b64(req), header_value(req),
                                         settings.PHONEPE_SALT_KEY, settings.PHONEPE_SALT_INDEX)
    THEN "Signature mismatch"
    ELSE IF req.enc \in {"badb64", "notjson"} THEN "Invalid response data"
    ELSE IF req.enc = "nonobject" THEN "server_error"
    ELSE IF req.doc.merchantTransactionId = "" THEN "Missing transaction"
    ELSE IF filter_order_id(payments, req.doc.merchantTransactionId) = 0
    THEN "Payment not found"
    ELSE ""

phonepe_callback(req, t, sms_ok, whatsapp_ok) ==
    LET rejection == callback_rejection(req) IN
    IF rejection # ""
    THEN Effect(payments, admissions, Resp("phonepe_callback", rejection, 0, 0, 0, 0))
    ELSE _update_payment_from_phonepe(
             filter_order_id(payments, req.doc.merchantTransactionId), req.doc,
             t, sms_ok, whatsapp_ok, "phonepe_callback", "OK", 0)

\* ---------------------------------------------------- phonepe_status_check
_phonepe_fetch_status_unchecked(reply) ==
    IF reply.kind = "error" THEN [ result |-> "gateway_error", calls |-> 1 ]
    ELSE IF reply.kind = "crash" THEN [ result |-> "server_error", calls |-> 1 ]
    ELSE [ result |-> "ok", calls |-> 1 ]

\* _phonepe_fetch_status(merchant_transaction_id): "config_missing" before any call,
\* otherwise what the outbound call ends in.
_phonepe_fetch_status(reply) ==
    IF ~_get_phonepe_config_complete
    THEN [ result |-> "config_missing", calls |-> 0 ]
    ELSE IF reply.kind = "error" THEN [ result |-> "gateway_error", calls |-> 1 ]
    ELSE IF reply.kind = "crash" THEN [ result |-> "server_error", calls |-> 1 ]
    ELSE [ result |-> "ok", calls |-> 1 ]

\* reply: how the outbound call ends; doc: the decoded document of an "ok" reply.
phonepe_status_check(a, reply, doc, t, sms_ok, whatsapp_ok) ==
    IF filter_admission(payments, a) = 0
    THEN Effect(payments, admissions, Resp("phonepe_status_check", "not_found", 0, 0, 0, 0))
    ELSE IF payments[a].order_id = ""
    THEN Effect(payments, admissions, Resp("phonepe_status_check", "not_found", a, 0, 0, 0))
    ELSE LET f == _phonepe_fetch_status(reply) IN
         IF f.result # "ok"
         THEN Effect(payments, admissions,
                     Resp("phonepe_status_check", f.result, a, f.calls, 0, 0))
         ELSE _update_payment_from_phonepe(a, doc, t, sms_ok, whatsapp_ok,
                                           "phonepe_status_check", "updated", f.calls)

\* ------------------------------------------------------------ the requests
\* What the notification providers answer, for the channels that are configured.
SmsAnswers == IF settings.SMS_CONFIGURED THEN BOOLEAN ELSE {FALSE}
WhatsappAnswers == IF settings.WHATSAPP_CONFIGURED THEN BOOLEAN ELSE {FALSE}

\* What the create-intent call ends in: each outcome of the call, the JSON body with
\* or without the order id and the redirect URL.
IntentReplies ==
    { gateway_client(o, id, IF id = "" THEN "" ELSE "https://pay") :
          o \in CallOutcomes, id \in {"", "order_A", "order_B"} }

StatusReplies == { gateway_client(o, "", "") : o \in CallOutcomes }

\* The non-blank order ids some Payment holds.
StoredOrderIds == { payments[a].order_id : a \in DOMAIN payments } \ {""}

\* Signatures a client may send with (order_id, payment_id): none, the one made with
\* the configured secret, and one made with another secret.
SignatureInputs(order_id, payment_id) ==
    { <<>>,
      hmac_sha256(settings.RAZORPAY_KEY_SECRET, razorpay_message(order_id, payment_id)),
      hmac_sha256("another_secret", razorpay_message(order_id, payment_id)) }

\* The redirect-verify requests a client may send: <<order_id, payment_id, signature>>
\* for a stored order id, for no order id, and for one nobody holds; with a payment
\* id and each signature, or without a payment id and the signature made for that.
VerifyRequests ==
    UNION { { <<o, "pay_1", s>> : s \in SignatureInputs(o, "pay_1") }
              \cup { <<o, "", hmac_sha256(settings.RAZORPAY_KEY_SECRET, razorpay_message(o, ""))>> } :
                o \in StoredOrderIds \cup {"", "order_X"} }

\* The callbacks a sender may deliver: malformed bodies, malformed envelopes, and
\* status documents for a stored order id, for none, and for one nobody holds.
CallbackRequests ==
    { CallbackRequest(b, "object", NoDoc, h) :
          b \in {"notjson", "nonobject", "noresponse"}, h \in {"absent", "valid"} }
    \cup { CallbackRequest("envelope", e, NoDoc, h) :
               e \in {"badb64", "notjson", "nonobject"}, h \in {"absent", "valid"} }
    \cup { CallbackRequest("envelope", "object", d, h) :
               d \in StatusDocs(StoredOrderIds), h \in HeaderTags }
    \cup { CallbackRequest("envelope", "object", d, h) :
               d \in { Doc(m, "COMPLETED", "", "", "T1", "U1", "") : m \in {"", "order_X"} },
               h \in {"absent", "valid"} }

\* The status documents the gateway may answer a poll of admission a with.
PollDocs(a) == StatusDocs({IF a \in DOMAIN payments THEN payments[a].order_id ELSE ""})

\* --------------------------------------------------------------- Spec
\* After intake of one admission: its fee is that of the fee plan, or 0 when the
\* plan is missing; its Payment exists, or does not yet (start_payment creates it).
Init ==
    /\ settings \in Configs
    /\ now = 1
    /\ \E fee \in {0, 1500} :
          /\ admissions = (1 :> NewAdmission(fee))
          /\ payments \in { (1 :> NewPayment(1, fee)), <<>> }
    /\ response = NoRequest
    /\ handlers = <<>>

\* The providers' answers <<sms_ok, whatsapp_ok>> a request can meet: they are drawn
\* only for a request that gets as far as asking a provider.
Answers(effect) ==
    IF effect.response.attempts > 0
    THEN SmsAnswers \X WhatsappAnswers
    ELSE {<<FALSE, FALSE>>}

\* A view runs to completion.
Handle(effect) ==
    /\ payments' = effect.payments
    /\ admissions' = effect.admissions
    /\ response' = effect.response
    /\ UNCHANGED <<settings, now, handlers>>

\* Time passes between requests.
Tick ==
    /\ now < MaxClock
    /\ now' = now + 1
    /\ UNCHANGED <<settings, admissions, payments, response, handlers>>

StartPayment ==
    \E a \in DOMAIN admissions, reply \in IntentReplies :
        Handle(start_payment(a, reply, now))

PaymentVerify ==
    \E req \in VerifyRequests :
        \E ans \in Answers(payment_verify(req[1], req[2], req[3], now, TRUE, TRUE)) :
            Handle(payment_verify(req[1], req[2], req[3], now, ans[1], ans[2]))

PhonepeCallback ==
    \E req \in CallbackRequests :
        \E ans \in Answers(phonepe_callback(req, now, TRUE, TRUE)) :
            Handle(phonepe_callback(req, now, ans[1], ans[2]))

PhonepeStatusCheck ==
    \E a \in DOMAIN admissions, reply \in StatusReplies :
        \E doc \in PollDocs(a) :
            \E ans \in Answers(phonepe_status_check(a, reply, doc, now, TRUE, TRUE)) :
                Handle(phonepe_status_check(a, reply, doc, now, ans[1], ans[2]))

Next ==
    \/ Tick
    \/ StartPayment
    \/ PaymentVerify
    \/ PhonepeCallback
    \/ PhonepeStatusCheck

Spec == Init /\ [][Next]_vars

\* ------------------------------------------------------------- ConcSpec
\* Two request handlers (threads or worker processes of the web server) work on the
\* Payment of admission 1, whose intent has been created.  No view opens a
\* transaction or locks the row, so every ORM statement is a step of its own:
\*   lookup            Payment.objects.filter(...).select_related("admission").first()
\*   save_payment      payment.save(update_fields=[...])
\*   save_admission    admission.save(update_fields=["fee_status", "fee_paid"])
\*   notify            _maybe_send_payment_notifications up to the provider calls
\*   save_notified     payment.save(update_fields=["notified_at"])
\* A handler keeps the objects it read (obj, adm); sent and wrote count its
\* successful notification and its write of notified_at.
Handlers == {1, 2}

Handler(pc, op, obj, adm, doc, payment_id, valid, sent, wrote) ==
    [ pc |-> pc, op |-> op, obj |-> obj, adm |-> adm, doc |-> doc,
      payment_id |-> payment_id, valid |-> valid, sent |-> sent, wrote |-> wrote ]

IdleHandler == Handler("idle", "none", NewPayment(0, 0), NewAdmission(0), NoDoc, "", FALSE, 0, 0)

ConcConfigs ==
    { DefaultSettings,
      [DefaultSettings EXCEPT !.PAYMENT_GATEWAY = RAZORPAY, !.WHATSAPP_CONFIGURED = TRUE] }

ConcInit ==
    /\ settings \in ConcConfigs
    /\ now = 1
    /\ admissions = (1 :> NewAdmission(1500))
    /\ payments = (1 :> IF settings.PAYMENT_GATEWAY = PHONEPE
                        THEN _start_phonepe_payment(1, NewPayment(1, 1500),
                                                    Reply("ok", "", "https://pay"), 1).row
                        ELSE start_razorpay_payment(1, NewPayment(1, 1500),
                                                    Reply("ok", "order_A", "")).row)
    /\ response = NoRequest
    /\ handlers = [ i \in Handlers |-> IdleHandler ]

\* The lookup of a callback or a poll that delivers `doc` for the stored order id.
LookupPhonepe(i) ==
    /\ handlers[i].pc = "idle"
    /\ \E op \in {"phonepe_callback", "phonepe_status_check"},
          doc \in StatusDocs({payments[1].order_id}) :
          handlers' = [handlers EXCEPT ![i] =
              Handler("save_payment", op, payments[1], admissions[1], doc, "", TRUE, 0, 0)]
    /\ UNCHANGED <<settings, now, admissions, payments, response>>

\* The lookup of a redirect-verify for the stored order id, and its signature check.
LookupVerify(i) ==
    /\ handlers[i].pc = "idle"
    /\ \E signature \in SignatureInputs(payments[1].order_id, "pay_1") :
          handlers' = [handlers EXCEPT ![i] =
              Handler("save_payment", "payment_verify", payments[1], admissions[1], NoDoc,
                      "pay_1",
                      _verify_razorpay_signature(payments[1].order_id, "pay_1", signature,
                                                 settings.RAZORPAY_KEY_SECRET),
                      0, 0)]
    /\ UNCHANGED <<settings, now, admissions, payments, response>>

\* The in-memory payment a handler saves, and the columns it writes.
handler_obj(h, t) ==
    IF h.op = "payment_verify"
    THEN IF h.valid THEN verify_paid_fields(h.obj, h.payment_id, t)
                    ELSE verify_failed_fields(h.obj, h.payment_id)
    ELSE phonepe_fields(h.obj, h.doc, t)

handler_update_fields(h) ==
    IF h.op = "payment_verify"
    THEN IF h.valid THEN {"status", "payment_id", "paid_at"} ELSE {"status", "payment_id"}
    ELSE PhonepeSaveFields

SavePayment(i) ==
    LET h == handlers[i]
        obj == handler_obj(h, now)
        paid == IF h.op = "payment_verify" THEN h.valid ELSE obj.status = PAID
    IN  /\ h.pc = "save_payment"
        /\ payments' = [payments EXCEPT ![1] = save(@, obj, handler_update_fields(h))]
        /\ handlers' = [handlers EXCEPT ![i] =
               [h EXCEPT !.obj = obj, !.pc = IF paid THEN "save_admission" ELSE "done"]]
        /\ UNCHANGED <<settings, now, admissions, response>>

SaveAdmission_after_notify(i) ==
    LET h == handlers[i] IN
    /\ h.pc = "save_admission"
    /\ handlers' = [handlers EXCEPT ![i] = [h EXCEPT !.pc = "notify"]]
    /\ UNCHANGED <<settings, now, admissions, payments, response>>

SaveAdmission(i) ==
    LET h == handlers[i]
        adm == admission_paid_fields(h.adm, h.obj)
    IN  /\ h.pc = "save_admission"
        /\ admissions' = [admissions EXCEPT ![1] = save(@, adm, {"fee_status", "fee_paid"})]
        /\ handlers' = [handlers EXCEPT ![i] = [h EXCEPT !.adm = adm, !.pc = "notify"]]
        /\ UNCHANGED <<settings, now, payments, response>>

Notify(i) ==
    LET h == handlers[i] IN
    /\ h.pc = "notify"
    /\ \E sms_ok \in SmsAnswers, whatsapp_ok \in WhatsappAnswers :
          LET n == _maybe_send_payment_notifications(h.obj, sms_ok, whatsapp_ok, now) IN
          handlers' = [handlers EXCEPT ![i] =
              [h EXCEPT !.obj = n.payment, !.sent = n.sent,
                        !.pc = IF n.write THEN "save_notified" ELSE "done"]]
    /\ UNCHANGED <<settings, now, admissions, payments, response>>

SaveNotified(i) ==
    LET h == handlers[i] IN
    /\ h.pc = "save_notified"
    /\ payments' = [payments EXCEPT ![1] = save(@, h.obj, {"notified_at"})]
    /\ handlers' = [handlers EXCEPT ![i] = [h EXCEPT !.wrote = 1, !.pc = "done"]]
    /\ UNCHANGED <<settings, now, admissions, response>>

ConcTick ==
    /\ now < MaxClock
    /\ now' = now + 1
    /\ UNCHANGED <<settings, admissions, payments, response, handlers>>

ConcNext ==
    \/ ConcTick
    \/ \E i \in Handlers : LookupPhonepe(i)
    \/ \E i \in Handlers : LookupVerify(i)
    \/ \E i \in Handlers : SavePayment(i)
    \/ \E i \in Handlers : SaveAdmission(i)
    \/ \E i \in Handlers : Notify(i)
    \/ \E i \in Handlers : SaveNotified(i)

ConcSpec == ConcInit /\ [][ConcNext]_vars

\* -------------------------------------------------------------- SeqSpec
\* The same statements with the requests handled one after the other: a handler
\* starts only when no other handler is between its lookup and its last statement.
Quiet(i) == \A j \in Handlers \ {i} : handlers[j].pc \in {"idle", "done"}

SeqNext ==
    \/ ConcTick
    \/ \E i \in Handlers : Quiet(i) /\ LookupPhonepe(i)
    \/ \E i \in Handlers : Quiet(i) /\ LookupVerify(i)
    \/ \E i \in Handlers : SavePayment(i)
    \/ \E i \in Handlers : SaveAdmission(i)
    \/ \E i \in Handlers : Notify(i)
    \/ \E i \in Handlers : SaveNotified(i)

SeqSpec == ConcInit /\ [][SeqNext]_vars

\* -------------------------------------------------------------- MapSpec
\* The Payment of admission 1 after a PhonePe intent was created; callbacks and polls
\* then deliver documents over the whole vocabulary of state and response codes, in
\* either case, so that _map_phonepe_status is applied to every pair.
StatusWords ==
    { "", "COMPLETED", "SUCCESS", "PAYMENT_SUCCESS", "FAILED", "ERROR", "PAYMENT_ERROR",
      "PENDING", "completed", "payment_success", "error" }

\* Documents for order id m: the code under data.responseCode, or at top level.
MapDocs(m) ==
    { Doc(m, s, c, "", "T1", "U1", "") : s \in StatusWords, c \in StatusWords }
    \cup { Doc(m, s, "", c, "T1", "U1", "") : s \in {"", "PENDING"}, c \in StatusWords }

MapInit ==
    /\ settings = DefaultSettings
    /\ now = 1
    /\ admissions = (1 :> NewAdmission(1500))
    /\ payments = (1 :> _start_phonepe_payment(1, NewPayment(1, 1500),
                                               Reply("ok", "", "https://pay"), 1).row)
    /\ response = NoRequest
    /\ handlers = <<>>

MapCallback ==
    \E d \in MapDocs(payments[1].order_id), sms_ok \in SmsAnswers :
        Handle(phonepe_callback(CallbackRequest("envelope", "object", d, "valid"),
                                now, sms_ok, FALSE))

MapPoll ==
    \E d \in MapDocs(payments[1].order_id), sms_ok \in SmsAnswers :
        Handle(phonepe_status_check(1, Reply("ok", "", ""), d, now, sms_ok, FALSE))

MapNext ==
    \/ Tick
    \/ MapCallback
    \/ MapPoll

MapSpec == MapInit /\ [][MapNext]_vars

\* ------------------------------------------------------------- UniqSpec
\* Two admissions after intake, each with its Payment; intents are created for them
\* and redirects verified, under the PhonePe and under the Razorpay deployment.
UniqConfigs ==
    { DefaultSettings,
      [DefaultSettings EXCEPT !.PAYMENT_GATEWAY = RAZORPAY] }

UniqInit ==
    /\ settings \in UniqConfigs
    /\ now = 1
    /\ admissions = (1 :> NewAdmission(1500)) @@ (2 :> NewAdmission(1500))
    /\ payments = (1 :> NewPayment(1, 1500)) @@ (2 :> NewPayment(2, 1500))
    /\ response = NoRequest
    /\ handlers = <<>>

UniqNext ==
    \/ Tick
    \/ StartPayment
    \/ PaymentVerify

UniqSpec == UniqInit /\ [][UniqNext]_vars

\* ------------------------------------------------------------ CreateSpec
\* The Payment table as the database holds it: rows in primary-key order, each naming
\* its Admission.  Admission 1 exists without a Payment (entered outside the intake
\* form); the intake form adds admissions together with their Payment; start_payment
\* requests run as two statements (the lookup, then the lazy create) in handlers
\* that interleave.
MaxAdmissions == 3

PaymentRow(a, amount) == [ admission_id |-> a, amount |-> amount, status |-> PENDING ]

\* Payment.objects.filter(admission=a): the primary keys of the matching rows.
rows_of_admission(table, a) == { pk \in DOMAIN table : table[pk].admission_id = a }

create_without_unique(table, a, amount) ==
    [ ok |-> TRUE, table |-> Append(table, PaymentRow(a, amount)) ]

\* Payment.objects.create(admission=a, amount=amount, status=PENDING): the INSERT is
\* refused (IntegrityError) when a row of that Admission exists, admission being a
\* OneToOneField and so a unique column.
create(table, a, amount) ==
    IF rows_of_admission(table, a) # {}
    THEN [ ok |-> FALSE, table |-> table ]
    ELSE [ ok |-> TRUE, table |-> Append(table, PaymentRow(a, amount)) ]

\* A start_payment handler: where it is, the Admission it serves, the primary key its
\* lookup returned (0 for none).
Starter(pc, adm, found) == [ pc |-> pc, adm |-> adm, found |-> found ]

CreateInit ==
    /\ settings = DefaultSettings
    /\ now = 1
    /\ admissions = (1 :> NewAdmission(1500))
    /\ payments = <<>>
    /\ response = NoRequest
    /\ handlers = [ i \in Handlers |-> Starter("idle", 0, 0) ]

\* The intake view: Admission and Payment are created in one transaction.
Intake ==
    /\ Cardinality(DOMAIN admissions) < MaxAdmissions
    /\ \E fee \in {0, 1500} :
          LET a == Cardinality(DOMAIN admissions) + 1
              c == create(payments, a, fee)
          IN  /\ c.ok
              /\ admissions' = admissions @@ (a :> NewAdmission(fee))
              /\ payments' = c.table
    /\ response' = Resp("admission", "success", Cardinality(DOMAIN admissions) + 1, 0, 0, 0)
    /\ UNCHANGED <<settings, now, handlers>>

\* payment = Payment.objects.filter(admission=admission).first()
StartLookup(i) ==
    /\ handlers[i].pc = "idle"
    /\ \E a \in DOMAIN admissions :
          LET matching == rows_of_admission(payments, a)
              found == IF matching = {} THEN 0
                       ELSE CHOOSE pk \in matching : \A other \in matching : pk <= other
          IN  handlers' = [handlers EXCEPT ![i] =
                  Starter(IF found = 0 THEN "create" ELSE "proceed", a, found)]
    /\ UNCHANGED <<settings, now, admissions, payments, response>>

\* if not payment: payment = Payment.objects.create(...); an IntegrityError ends the
\* request with a server error.
StartCreate(i) ==
    LET h == handlers[i]
        c == create(payments, h.adm, admissions[h.adm].fee_amount)
    IN  /\ h.pc = "create"
        /\ payments' = c.table
        /\ IF c.ok
           THEN /\ handlers' = [handlers EXCEPT ![i] = Starter("proceed", h.adm, Len(c.table))]
                /\ UNCHANGED response
           ELSE /\ handlers' = [handlers EXCEPT ![i] = Starter("idle", 0, 0)]
                /\ response' = Resp("start_payment", "server_error", h.adm, 0, 0, 0)
        /\ UNCHANGED <<settings, now, admissions>>

\* The rest of start_payment, on the Payment the handler holds.
StartProceed(i) ==
    LET h == handlers[i] IN
    /\ h.pc = "proceed"
    /\ handlers' = [handlers EXCEPT ![i] = Starter("idle", 0, 0)]
    /\ response' = Resp("start_payment", "proceeded", h.adm, 0, 0, 0)
    /\ UNCHANGED <<settings, now, admissions, payments>>

CreateNext ==
    \/ Intake
    \/ \E i \in Handlers : StartLookup(i)
    \/ \E i \in Handlers : StartCreate(i)
    \/ \E i \in Handlers : StartProceed(i)

CreateSpec == CreateInit /\ [][CreateNext]_vars

\* ------------------------------------------------------------ SchemeSpec
\* The PhonePe integrity scheme on its own: a sender signs a callback payload with
\* _phonepe_checksum (or sends no header), the receiver runs _verify_phonepe_callback
\* on it with the configured salt key and index.
SchemePayloads ==
    { [ enc |-> "object", doc |-> d ] : d \in StatusDocs(StoredOrderIds \cup {"order_X"}) }
SchemePaths == {"", "/pg/v1/pay"}
SchemeSalts == {settings.PHONEPE_SALT_KEY, "another_salt"}
SchemeIndexes == {settings.PHONEPE_SALT_INDEX, "2"}

\* The header values a sender can put on a callback.
SchemeHeaders ==
    {<<>>} \cup { _phonepe_checksum(q, path, k, i) :
                     q \in SchemePayloads, path \in SchemePaths,
                     k \in SchemeSalts, i \in SchemeIndexes }

\* A callback in flight and, once received, what the verifier said.
Message(payload, header, verdict) ==
    [ payload |-> payload, header |-> header, verdict |-> verdict ]

SchemeInit ==
    /\ MapInit
    /\ settings = DefaultSettings

SendCallback ==
    /\ \E p \in SchemePayloads, h \in SchemeHeaders :
          handlers' = <<Message(p, h, "")>>
    /\ UNCHANGED <<settings, now, admissions, payments, response>>

\* Lines 822-825 of phonepe_callback.
VerifyCallback ==
    /\ handlers # <<>> /\ handlers[1].verdict = ""
    /\ LET m == handlers[1]
           ok == _verify_phonepe_callback(m.payload, m.header, settings.PHONEPE_SALT_KEY,
                                          settings.PHONEPE_SALT_INDEX)
       IN  /\ handlers' = <<Message(m.payload, m.header,
                                     IF ok THEN "verified" ELSE "Signature mismatch")>>
           /\ response' = Resp("phonepe_callback", IF ok THEN "verified" ELSE "Signature mismatch",
                               0, 0, 0, 0)
    /\ UNCHANGED <<settings, now, admissions, payments>>

SchemeNext ==
    \/ SendCallback
    \/ VerifyCallback

SchemeSpec == SchemeInit /\ [][SchemeNext]_vars

\* ------------------------------------------------------------- AdminSpec
\* The reconciliation views together with the two other writers of Payment and
\* Admission: the admin action mark_paid and the admission_success page.
mark_paid_overwriting(queryset, t) ==
    Effect([ a \in DOMAIN payments |->
                IF a \in queryset
                THEN save(payments[a], [payments[a] EXCEPT !.status = PAID, !.paid_at = t],
                          {"status", "paid_at"})
                ELSE payments[a] ],
           [ a \in DOMAIN admissions |->
                IF a \in queryset
                THEN save(admissions[a], admission_paid_fields(admissions[a], payments[a]),
                          {"fee_status", "fee_paid"})
                ELSE admissions[a] ],
           Resp("mark_paid", "marked", 0, 0, 0, 0))

\* PaymentAdmin.mark_paid(request, queryset): every selected Payment becomes Paid,
\* paid_at is set when it is null, and its Admission is written as Paid.
mark_paid(queryset, t) ==
    Effect([ a \in DOMAIN payments |->
                IF a \in queryset
                THEN save(payments[a],
                          [payments[a] EXCEPT !.status = PAID,
                                              !.paid_at = IF @ = None THEN t ELSE @],
                          {"status", "paid_at"})
                ELSE payments[a] ],
           [ a \in DOMAIN admissions |->
                IF a \in queryset
                THEN save(admissions[a], admission_paid_fields(admissions[a], payments[a]),
                          {"fee_status", "fee_paid"})
                ELSE admissions[a] ],
           Resp("mark_paid", "marked", 0, 0, 0, 0))

\* admission_success(request, admission_id): lines 165 and 182-184, the only writes
\* of the page.
admission_success(a, t) ==
    IF /\ filter_admission(payments, a) # 0
       /\ payments[a].status = PAID
       /\ payments[a].paid_at = None
    THEN Effect([payments EXCEPT ![a] = save(@, [@ EXCEPT !.paid_at = t], {"paid_at"})],
                admissions, Resp("admission_success", "rendered", a, 0, 0, 0))
    ELSE Effect(payments, admissions, Resp("admission_success", "rendered", a, 0, 0, 0))

\* After intake of one admission: its Payment is as intake made it, is missing, or
\* was set to Paid by hand on the admin change form (which leaves paid_at null).
AdminInit ==
    /\ settings \in ConcConfigs
    /\ now = 1
    /\ admissions = (1 :> NewAdmission(1500))
    /\ payments \in { (1 :> NewPayment(1, 1500)), <<>>,
                       (1 :> [NewPayment(1, 1500) EXCEPT !.status = PAID]) }
    /\ response = NoRequest
    /\ handlers = <<>>

MarkPaid ==
    \E queryset \in SUBSET DOMAIN payments :
        Handle(mark_paid(queryset, now))

AdmissionSuccess ==
    \E a \in DOMAIN admissions :
        Handle(admission_success(a, now))

AdminNext ==
    \/ Tick
    \/ StartPayment
    \/ PaymentVerify
    \/ PhonepeCallback
    \/ PhonepeStatusCheck
    \/ MarkPaid
    \/ AdmissionSuccess

AdminSpec == AdminInit /\ [][AdminNext]_vars

\* ================================================================ claims
\* A request step: a view ran (time passes only between requests).
IsRequest == now' = now

\* C1: once a Payment's status is Paid, no later outcome (redirect-verify, callback
\* or poll; mapped to Failed or Pending, or with an invalid signature) changes its
\* status away from Paid.
C1_PaidIsMonotonic ==
    [][ \A a \in DOMAIN payments :
            payments[a].status = PAID => payments'[a].status = PAID ]_vars

\* C2: after any sequence of completed requests, Admission.fee_status is Paid iff
\* the Payment's status is Paid, and then Admission.fee_paid = Payment.amount.
C2_FeeStatusIffPaid ==
    \A a \in DOMAIN payments :
        /\ admissions[a].fee_status = PAID <=> payments[a].status = PAID
        /\ payments[a].status = PAID => admissions[a].fee_paid = payments[a].amount

\* C3: a Paid-mapped callback delivered a second time (the request before this one
\* was the same accepted callback: same Payment, same document) leaves every Payment
\* and Admission field as the first delivery left it, is answered OK, and over both
\* deliveries at most one notification is sent.
C3_ReplayIsIdempotent ==
    [][ ( /\ IsRequest
          /\ response.op = "phonepe_callback" /\ response.result = "OK"
          /\ response'.op = "phonepe_callback" /\ response'.adm = response.adm
          /\ payments[response.adm].status = PAID
          /\ payments'[response.adm].gateway_response
                 = payments[response.adm].gateway_response )
        => ( /\ response'.result = "OK"
             /\ payments' = payments
             /\ admissions' = admissions
             /\ response.sent + response'.sent <= 1 ) ]_vars

\* C4: paid_at is written the first time the status becomes Paid and keeps that
\* value under every later outcome (replayed callback, Paid poll, repeated verify).
C4_PaidAtWrittenOnce ==
    [][ \A a \in DOMAIN payments :
            payments[a].paid_at # None => payments'[a].paid_at = payments[a].paid_at ]_vars

\* C5: with notified_at set or notifications disabled the notifier sends nothing and
\* writes nothing; so over sequentially handled requests notified_at is assigned at
\* most once and no send is attempted once it is assigned.
C5_Gate ==
    \A a \in DOMAIN payments, sms_ok \in BOOLEAN, whatsapp_ok \in BOOLEAN :
        (payments[a].notified_at # None \/ ~settings.SEND_PAYMENT_NOTIFICATIONS)
        => LET n == _maybe_send_payment_notifications(payments[a], sms_ok, whatsapp_ok, now)
           IN  n.attempts = 0 /\ n.sent = 0 /\ ~n.write /\ n.payment = payments[a]

C5_NotificationGating ==
    /\ [](C5_Gate)
    /\ [](~settings.SEND_PAYMENT_NOTIFICATIONS
            => response.attempts = 0 /\ \A a \in DOMAIN payments : payments[a].notified_at = None)
    /\ [][ \A a \in DOMAIN payments :
               payments[a].notified_at # None
               => /\ payments'[a].notified_at = payments[a].notified_at
                  /\ IsRequest => response'.attempts = 0 /\ response'.sent = 0 ]_vars

\* A Paid outcome was handled after the notification had gone out: paid_at is later
\* than notified_at and the request sent nothing.
C5_Witness ==
    /\ response.result \in {"OK", "updated", "success"}
    /\ response.adm # 0
    /\ response.attempts = 0
    /\ payments[response.adm].status = PAID
    /\ payments[response.adm].notified_at # None
    /\ payments[response.adm].notified_at < payments[response.adm].paid_at

\* C6: when two Paid-mapped outcomes for the same order are handled concurrently, no
\* interleaving sends two notifications or writes notified_at twice.
C6_NotifiedOnce ==
    /\ handlers[1].sent + handlers[2].sent <= 1
    /\ handlers[1].wrote + handlers[2].wrote <= 1

\* C7: when two outcomes for the same Payment are handled concurrently, no
\* interleaving ends with Admission.fee_status Paid while Payment.status is not Paid,
\* or Payment.status Paid while the Admission is still Pending.
C7_NoTornState ==
    (\A i \in Handlers : handlers[i].pc = "done")
    => /\ ~(admissions[1].fee_status = PAID /\ payments[1].status # PAID)
       /\ ~(payments[1].status = PAID /\ admissions[1].fee_status = PENDING)

\* C8: a payment_verify request whose order_id matches a Pending Payment and whose
\* signature is not the HMAC of "order_id|payment_id" under the configured secret
\* sets status Failed, leaves paid_at as it was (null stays null), leaves the
\* Admission unchanged and sends no notification.
C8_SignatureRejection ==
    \A req \in VerifyRequests, sms_ok \in BOOLEAN, whatsapp_ok \in BOOLEAN :
        LET a == filter_order_id(payments, req[1])
            e == payment_verify(req[1], req[2], req[3], now, sms_ok, whatsapp_ok)
        IN  ( /\ a # 0
              /\ payments[a].status = PENDING
              /\ req[3] # hmac_sha256(settings.RAZORPAY_KEY_SECRET,
                                      razorpay_message(req[1], req[2])) )
            => /\ e.payments[a].status = FAILED
               /\ e.payments[a].paid_at = payments[a].paid_at
               /\ e.payments[a].notified_at = payments[a].notified_at
               /\ e.admissions = admissions
               /\ e.response.attempts = 0 /\ e.response.sent = 0

\* A forged redirect was rejected on a never-paid Payment.
C8_Witness ==
    /\ response.op = "payment_verify" /\ response.result = "verification_failed"
    /\ payments[response.adm].status = FAILED
    /\ payments[response.adm].order_id # ""
    /\ payments[response.adm].paid_at = None
    /\ admissions[response.adm].fee_status = PENDING

\* merchant id, salt key and salt index are set (line 819).
CallbackConfigured ==
    /\ settings.PHONEPE_MERCHANT_ID # ""
    /\ settings.PHONEPE_SALT_KEY # ""
    /\ settings.PHONEPE_SALT_INDEX # ""

\* C9 as stated: with callback verification enabled, every phonepe_callback request
\* whose X-VERIFY header is absent or does not match is answered 'Signature mismatch',
\* changes no Payment or Admission field and sends no notification.
C9_Original ==
    \A req \in CallbackRequests, sms_ok \in BOOLEAN, whatsapp_ok \in BOOLEAN :
        LET e == phonepe_callback(req, now, sms_ok, whatsapp_ok) IN
        (settings.PHONEPE_VERIFY_CALLBACK /\ req.hdr # "valid")
        => /\ e.response.result = "Signature mismatch"
           /\ e.payments = payments /\ e.admissions = admissions
           /\ e.response.attempts = 0

\* C9 amended: with callback verification enabled, a request whose X-VERIFY header is
\* absent or does not match is never applied: nothing is written, nothing is sent and
\* the answer is not OK; the answer is 'Signature mismatch' when the body is JSON with
\* a response field and PhonePe is configured (the checks that come first).
C9_SignatureMismatch ==
    \A req \in CallbackRequests, sms_ok \in BOOLEAN, whatsapp_ok \in BOOLEAN :
        LET e == phonepe_callback(req, now, sms_ok, whatsapp_ok) IN
        (settings.PHONEPE_VERIFY_CALLBACK /\ req.hdr # "valid")
        => /\ e.payments = payments /\ e.admissions = admissions
           /\ e.response.attempts = 0 /\ e.response.sent = 0
           /\ e.response.result # "OK"
           /\ (req.body = "envelope" /\ CallbackConfigured)
                  => e.response.result = "Signature mismatch"

\* A callback was answered 'Signature mismatch' while a Pending Payment with an order
\* id was there to be updated.
C9_Witness ==
    /\ response.op = "phonepe_callback" /\ response.result = "Signature mismatch"
    /\ \E a \in DOMAIN payments : payments[a].order_id # "" /\ payments[a].status = PENDING

\* The documents whose merchantTransactionId no Payment holds.
UnknownCallbacks ==
    { req \in CallbackRequests :
          /\ req.body = "envelope" /\ req.enc = "object"
          /\ \A a \in DOMAIN payments : payments[a].order_id # req.doc.merchantTransactionId }

\* C10 as stated: a payment_verify or phonepe_callback whose order id matches no
\* Payment, and a poll of an admission with no Payment or no stored order id, return
\* not-found, write nothing and make no outbound call.
C10_Original ==
    /\ \A req \in VerifyRequests :
          (\A a \in DOMAIN payments : payments[a].order_id # req[1])
          => payment_verify(req[1], req[2], req[3], now, TRUE, TRUE)
                 = Effect(payments, admissions, Resp("payment_verify", "not_found", 0, 0, 0, 0))
    /\ \A req \in UnknownCallbacks :
          LET e == phonepe_callback(req, now, TRUE, TRUE) IN
          /\ e.response.result = "Payment not found"
          /\ e.payments = payments /\ e.admissions = admissions /\ e.response.calls = 0
    /\ \A a \in DOMAIN admissions, reply \in StatusReplies : \A doc \in PollDocs(a) :
          (a \notin DOMAIN payments \/ payments[a].order_id = "")
          => LET e == phonepe_status_check(a, reply, doc, now, TRUE, TRUE) IN
             /\ e.response.result = "not_found"
             /\ e.payments = payments /\ e.admissions = admissions /\ e.response.calls = 0

\* C10 amended: as stated for payment_verify and the poll; a phonepe_callback whose
\* merchantTransactionId matches no Payment writes nothing and makes no outbound call,
\* and is answered 'Payment not found' when it gets as far as the lookup (PhonePe
\* configured, header accepted or verification disabled, transaction id not empty).
C10_UnknownOrderId ==
    /\ \A req \in VerifyRequests :
          (\A a \in DOMAIN payments : payments[a].order_id # req[1])
          => payment_verify(req[1], req[2], req[3], now, TRUE, TRUE)
                 = Effect(payments, admissions, Resp("payment_verify", "not_found", 0, 0, 0, 0))
    /\ \A req \in UnknownCallbacks :
          LET e == phonepe_callback(req, now, TRUE, TRUE) IN
          /\ e.payments = payments /\ e.admissions = admissions /\ e.response.calls = 0
          /\ e.response.attempts = 0
          /\ ( /\ CallbackConfigured
               /\ settings.PHONEPE_VERIFY_CALLBACK => req.hdr = "valid"
               /\ req.doc.merchantTransactionId # "" )
             => e.response.result = "Payment not found"
    /\ \A a \in DOMAIN admissions, reply \in StatusReplies : \A doc \in PollDocs(a) :
          (a \notin DOMAIN payments \/ payments[a].order_id = "")
          => LET e == phonepe_status_check(a, reply, doc, now, TRUE, TRUE) IN
             /\ e.response.result = "not_found"
             /\ e.payments = payments /\ e.admissions = admissions /\ e.response.calls = 0

\* A callback for an order id nobody holds was answered 'Payment not found' while
\* another order id was stored.
C10_Witness ==
    /\ response.op = "phonepe_callback" /\ response.result = "Payment not found"
    /\ \E a \in DOMAIN payments : payments[a].order_id # ""

\* The last request applied a gateway document to the Payment it names.
Applied ==
    /\ response.result \in {"OK", "updated"}
    /\ response.adm \in DOMAIN payments
    /\ payments[response.adm].gateway_response # <<>>

\* The document the last request stored, and the (state, code) pair read from it.
AppliedDoc == payments[response.adm].gateway_response[1]
AppliedState == upper(AppliedDoc.state)
AppliedCode ==
    upper(IF AppliedDoc.responseCode # "" THEN AppliedDoc.responseCode ELSE AppliedDoc.code)

\* The values the specification names as success and as failure.
SuccessValues == {"COMPLETED", "SUCCESS", "PAYMENT_SUCCESS"}
FailureValues == {"FAILED", "ERROR", "PAYMENT_ERROR"}

\* C11: a document whose state, compared case-insensitively, is COMPLETED, SUCCESS or
\* PAYMENT_SUCCESS is mapped to Paid whatever its code.
C11_SuccessStates ==
    (Applied /\ AppliedState \in SuccessValues)
    => payments[response.adm].status = PAID

\* C12: when neither the state nor the code holds a success value, the document is
\* mapped to Failed if either holds FAILED, ERROR or PAYMENT_ERROR (the same values
\* in both fields, in either case) and to Pending otherwise.
C12_FailureAndDefault ==
    (Applied /\ AppliedState \notin SuccessValues /\ AppliedCode \notin SuccessValues)
    => payments[response.adm].status
           = IF AppliedState \in FailureValues \/ AppliedCode \in FailureValues
             THEN FAILED ELSE PENDING

\* C13: a callback or poll outcome that resolves to Pending or Failed writes no
\* Admission field and attempts no notification; the Admission changes and the
\* notifier sends only when the outcome resolves to Paid.
C13_UnpaidOutcomeFrame ==
    [][ (IsRequest /\ response'.op \in {"phonepe_callback", "phonepe_status_check"})
        => LET applied == response'.result \in {"OK", "updated"}
               a == response'.adm
           IN  /\ (applied /\ payments'[a].status \in {PENDING, FAILED})
                      => admissions' = admissions /\ response'.attempts = 0
               /\ (admissions' # admissions \/ response'.attempts > 0)
                      => applied /\ payments'[a].status = PAID ]_vars

\* A FAILED document was applied to a Payment whose Admission is still Pending and
\* unpaid, and nothing was sent.
C13_Witness ==
    /\ Applied /\ AppliedDoc.state = "FAILED"
    /\ payments[response.adm].status = FAILED
    /\ admissions[response.adm].fee_status = PENDING
    /\ admissions[response.adm].fee_paid = 0
    /\ response.attempts = 0

\* C14: a Payment's status changes only from Pending to Paid or from Pending to
\* Failed, and leaves Failed only in a start_payment request (a fresh intent): no
\* callback, poll or redirect-verify moves a Failed Payment to Pending or Paid.
C14_Lifecycle ==
    [][ \A a \in DOMAIN payments :
            payments'[a].status # payments[a].status
            => \/ payments[a].status = PENDING /\ payments'[a].status \in {PAID, FAILED}
               \/ payments[a].status = FAILED /\ response'.op = "start_payment" ]_vars

\* C15: when create-intent or fetch-status ends in an error (the client raised, or
\* the reply carried no redirect URL), no field of the existing Payment and no
\* Admission field has changed.
C15_GatewayFailureFrame ==
    /\ \A a \in DOMAIN admissions, reply \in IntentReplies :
           LET e == start_payment(a, reply, now) IN
           (e.response.result \in {"gateway_error", "server_error"})
           => /\ e.admissions = admissions
              /\ a \in DOMAIN payments => e.payments[a] = payments[a]
    /\ \A a \in DOMAIN admissions, reply \in StatusReplies : \A doc \in PollDocs(a) :
           LET e == phonepe_status_check(a, reply, doc, now, TRUE, TRUE) IN
           (e.response.result \in {"gateway_error", "server_error"})
           => e.admissions = admissions /\ e.payments = payments

\* The credentials start_payment needs for the selected gateway are incomplete.
GatewayCredentialsMissing ==
    IF settings.PAYMENT_GATEWAY = PHONEPE
    THEN ~_get_phonepe_config_complete
    ELSE settings.RAZORPAY_KEY_ID = "" \/ settings.RAZORPAY_KEY_SECRET = ""

\* The columns C16 names are the same in both rows.
SameIntent(p, q) ==
    p.status = q.status /\ p.order_id = q.order_id /\ p.gateway = q.gateway

\* C16: with the selected gateway's credentials absent, start_payment makes no
\* outbound call and leaves status, order_id and gateway of the existing Payment as
\* they are; with the PhonePe settings incomplete so does phonepe_status_check.
C16_ConfigMissingFailsFast ==
    /\ \A a \in DOMAIN admissions, reply \in IntentReplies :
           LET e == start_payment(a, reply, now) IN
           GatewayCredentialsMissing
           => /\ e.response.calls = 0
              /\ e.admissions = admissions
              /\ a \in DOMAIN payments => SameIntent(e.payments[a], payments[a])
    /\ \A a \in DOMAIN admissions, reply \in StatusReplies : \A doc \in PollDocs(a) :
           LET e == phonepe_status_check(a, reply, doc, now, TRUE, TRUE) IN
           ~_get_phonepe_config_complete
           => /\ e.response.calls = 0
              /\ e.admissions = admissions
              /\ e.payments = payments

\* A poll of a Payment that holds an order id stopped at the missing PhonePe settings.
C16_Witness ==
    /\ response.op = "phonepe_status_check" /\ response.result = "config_missing"
    /\ response.calls = 0
    /\ payments[response.adm].order_id # ""

\* The request does not carry a decodable document naming a transaction.
Malformed(req) ==
    req.body # "envelope" \/ req.enc # "object" \/ req.doc.merchantTransactionId = ""

\* The answers phonepe_callback gives with status 400.
Rejections400 ==
    { "Invalid payload", "Missing response", "PhonePe not configured", "Signature mismatch",
      "Invalid response data", "Missing transaction" }

\* C17: every phonepe_callback whose body is not JSON, lacks the response field,
\* whose response is not base64 of a JSON object of the expected shape, or which
\* lacks merchantTransactionId, is answered with a 400-class rejection and writes no
\* Payment and no Admission.
C17_MalformedRejected ==
    \A req \in CallbackRequests :
        LET e == phonepe_callback(req, now, TRUE, TRUE) IN
        Malformed(req)
        => /\ e.response.result \in Rejections400
           /\ e.payments = payments /\ e.admissions = admissions

\* The answers the specification lists for phonepe_callback.
ListedAnswers ==
    { "OK", "Invalid payload", "Missing response", "Signature mismatch",
      "Invalid response data", "Missing transaction", "Payment not found" }

\* The success token goes with a Payment that was found and given the document.
SuccessMeansApplied(req, e) ==
    e.response.result = "OK"
    => /\ e.response.adm \in DOMAIN payments
       /\ payments[e.response.adm].order_id = req.doc.merchantTransactionId
       /\ e.payments[e.response.adm].gateway_response = json_dumps(req.doc)

ChannelsConfigured ==
    (IF settings.SMS_CONFIGURED THEN 1 ELSE 0) + (IF settings.WHATSAPP_CONFIGURED THEN 1 ELSE 0)

\* C19: when a Paid outcome is applied and every configured channel fails, the
\* Payment and the Admission are Paid all the same and notified_at stays null; every
\* later Paid outcome tries each configured channel again until one send succeeds,
\* which stamps notified_at; after that nothing is sent.
C19_NotificationRetry ==
    [][ ( /\ IsRequest
          /\ settings.SEND_PAYMENT_NOTIFICATIONS
          /\ response'.result \in {"OK", "updated", "success"}
          /\ response'.adm \in DOMAIN payments
          /\ payments'[response'.adm].status = PAID )
        => LET a == response'.adm IN
           /\ admissions'[a].fee_status = PAID
           /\ payments[a].notified_at = None
                 => /\ response'.attempts = ChannelsConfigured
                    /\ payments'[a].notified_at = IF response'.sent = 1 THEN now ELSE None
           /\ payments[a].notified_at # None
                 => /\ response'.attempts = 0 /\ response'.sent = 0
                    /\ payments'[a].notified_at = payments[a].notified_at ]_vars

\* A Paid outcome was applied while every configured channel failed.
C19_Witness ==
    /\ response.result \in {"OK", "updated", "success"}
    /\ response.attempts >= 1 /\ response.sent = 0
    /\ payments[response.adm].status = PAID
    /\ admissions[response.adm].fee_status = PAID
    /\ payments[response.adm].notified_at = None

\* C20: no two Payments hold the same non-empty order_id, whatever identifiers the
\* gateway returns and whatever admission ids and timestamps are combined.
C20_OrderIdUnique ==
    \A a \in DOMAIN payments, b \in DOMAIN payments :
        (a # b /\ payments[a].order_id # "") => payments[a].order_id # payments[b].order_id

\* C21: in every reachable state at most one Payment row names a given Admission:
\* after intake created the Payment, and when two start_payment requests for the same
\* Admission both find no Payment and both go on to create one.
C21_OnePaymentPerAdmission ==
    \A a \in DOMAIN admissions : Cardinality(rows_of_admission(payments, a)) <= 1

\* Two start_payment requests for admission 1 both found no Payment: one created the
\* row, the create of the other was refused; intake has created Payments as well.
C21_Witness ==
    /\ response.op = "start_payment" /\ response.result = "server_error"
    /\ response.adm = 1
    /\ Cardinality(rows_of_admission(payments, 1)) = 1
    /\ \E a \in DOMAIN admissions : a > 1 /\ Cardinality(rows_of_admission(payments, a)) = 1

\* C22: in a Paid apply handled sequentially the Payment is saved as Paid before the
\* Admission is written, and the Admission before the notifier runs: whenever a
\* handler is about to write the Admission the Payment row is Paid, and whenever it
\* is at, or past, the notification dispatch the Payment row is Paid, the Admission's
\* fee_status is Paid and its fee_paid is the Payment's amount.
C22_PaidApplyOrder ==
    \A i \in Handlers :
        /\ handlers[i].pc = "save_admission" => payments[1].status = PAID
        /\ handlers[i].pc \in {"notify", "save_notified"}
               => /\ payments[1].status = PAID
                  /\ admissions[1].fee_status = PAID
                  /\ admissions[1].fee_paid = payments[1].amount
        /\ handlers[i].sent = 1 => handlers[i].pc \in {"save_notified", "done"}

\* The second of two requests handled in turn has dispatched a notification and is
\* about to store notified_at.
C22_Witness ==
    \E i \in Handlers :
        /\ handlers[i].pc = "save_notified" /\ handlers[i].sent = 1
        /\ \A j \in Handlers \ {i} : handlers[j].pc = "done"

\* C23: when start_payment runs for a Payment that is Failed and holds an order_id,
\* and the intent is created (the request ends in the redirect or the checkout page),
\* the status is Pending again and the stored order_id is replaced by a different
\* one.  (Under Razorpay the identifier is the one the gateway issued for the new
\* order; the replacement is required here of the identifier the view itself makes.)
C23_RetryFreshIntent ==
    [][ \A a \in DOMAIN payments :
            ( /\ IsRequest
              /\ response'.op = "start_payment" /\ response'.adm = a
              /\ response'.result \in {"redirect", "checkout"}
              /\ payments[a].status = FAILED /\ payments[a].order_id # "" )
            => /\ payments'[a].status = PENDING
               /\ settings.PAYMENT_GATEWAY = PHONEPE
                     => payments'[a].order_id # payments[a].order_id ]_vars

\* The status a decoded document maps to (lines 864-865 and 874).
MappedStatus(doc) ==
    _map_phonepe_status(doc.state,
                        IF doc.responseCode # "" THEN doc.responseCode ELSE doc.code)

\* C24: a callback that passes verification and delivers a document mapped to Pending
\* is answered OK and leaves every field of the Payment as it was, whatever the
\* Payment's status before.
C24_PendingCallbackNoOp ==
    \A req \in CallbackRequests :
        LET e == phonepe_callback(req, now, TRUE, TRUE) IN
        (callback_rejection(req) = "" /\ MappedStatus(req.doc) = PENDING)
        => e.response.result = "OK" /\ e.payments = payments /\ e.admissions = admissions

\* C25: whatever way the outbound call fails (HTTP error status, no connection,
\* timeout while the response is read, a 2xx body that is not JSON), the client
\* raises the error the view catches: the request ends with a message for the user,
\* never with an exception that escapes the view.
C25_GatewayFailuresTyped ==
    \A o \in CallOutcomes \ {"json"} :
        /\ \A a \in DOMAIN admissions :
               start_payment(a, gateway_client(o, "", ""), now).response.result
                   \in {"already_paid", "fee_not_set", "config_missing", "gateway_error"}
        /\ \A a \in DOMAIN admissions : \A doc \in PollDocs(a) :
               phonepe_status_check(a, gateway_client(o, "", ""), doc, now, TRUE, TRUE)
                   .response.result \in {"not_found", "config_missing", "gateway_error"}

\* C26: a start_payment request makes at most one create-intent call and a
\* phonepe_status_check request at most one fetch-status call; a request whose call
\* failed made exactly that one call; payment_verify and phonepe_callback make none.
C26_NoInternalRetry ==
    /\ response.op \in {"start_payment", "phonepe_status_check"}
           => /\ response.calls <= 1
              /\ response.result \in {"gateway_error", "server_error"} => response.calls = 1
    /\ response.op \in {"payment_verify", "phonepe_callback"} => response.calls = 0

\* A start_payment request whose create-intent call was answered with an error.
C26_Witness ==
    /\ response.op = "start_payment" /\ response.result = "gateway_error"
    /\ response.calls = 1
    /\ settings.PAYMENT_GATEWAY = RAZORPAY

\* C27 as stated: for every payload, api_path, salt_key and salt_index the callback
\* verifier accepts the value _phonepe_checksum makes for them.
C27_Original ==
    \A p \in SchemePayloads, path \in SchemePaths, k \in SchemeSalts, i \in SchemeIndexes :
        _verify_phonepe_callback(p, _phonepe_checksum(p, path, k, i), k, i)

\* C27 amended: the callback verifier accepts a header exactly when it is the value
\* _phonepe_checksum makes for the payload with an empty api_path; every other
\* header, the checksum made with a non-empty api_path included, is rejected.
C27_SchemeConsistency ==
    /\ \A p \in SchemePayloads, k \in SchemeSalts, i \in SchemeIndexes :
           \A h \in SchemeHeaders :
               _verify_phonepe_callback(p, h, k, i) <=> (h = _phonepe_checksum(p, "", k, i))
    /\ \A n \in DOMAIN handlers :
           handlers[n].verdict # ""
           => (handlers[n].verdict = "verified"
                 <=> handlers[n].header
                       = _phonepe_checksum(handlers[n].payload, "", settings.PHONEPE_SALT_KEY,
                                           settings.PHONEPE_SALT_INDEX))

\* The receiver refused a callback whose header the sender made with the configured
\* salt and index over the payload and the pay path.
C27_Witness ==
    \E n \in DOMAIN handlers :
        /\ handlers[n].verdict = "Signature mismatch"
        /\ handlers[n].header
              = _phonepe_checksum(handlers[n].payload, "/pg/v1/pay", settings.PHONEPE_SALT_KEY,
                                  settings.PHONEPE_SALT_INDEX)

\* C28: a start_payment request for an Admission whose fee_status is Paid makes no
\* create-intent call and changes nothing of the Payment (no new order_id, no reset
\* of the status to Pending).
C28_NoSecondCharge ==
    [][ ( /\ IsRequest
          /\ response'.op = "start_payment"
          /\ admissions[response'.adm].fee_status = PAID )
        => response'.calls = 0 /\ payments' = payments ]_vars

\* C29: a Payment whose order_id is blank is changed by no payment_verify and no
\* phonepe_callback request, and a request that carries an empty order_id or
\* merchantTransactionId finds no Payment and writes nothing.
C29_BlankOrderIdUntouched ==
    /\ \A req \in VerifyRequests :
           LET e == payment_verify(req[1], req[2], req[3], now, TRUE, TRUE) IN
           /\ \A a \in DOMAIN payments : payments[a].order_id = "" => e.payments[a] = payments[a]
           /\ req[1] = "" => /\ e.response.result = "not_found"
                             /\ e.payments = payments /\ e.admissions = admissions
    /\ \A req \in CallbackRequests :
           LET e == phonepe_callback(req, now, TRUE, TRUE) IN
           /\ \A a \in DOMAIN payments : payments[a].order_id = "" => e.payments[a] = payments[a]
           /\ req.doc.merchantTransactionId = ""
                  => /\ e.response.result # "OK"
                     /\ e.payments = payments /\ e.admissions = admissions

\* C30: a payment_verify request makes a Payment Paid (or answers success, or writes
\* the Admission) only when its order_id, payment_id and signature and the configured
\* secret are all non-empty and the signature is the HMAC of "order_id|payment_id"
\* under that secret; with an empty secret or an empty field nothing becomes Paid.
C30_PaidOnlyOnVerifiedSignature ==
    \A req \in VerifyRequests, sms_ok \in BOOLEAN :
        LET e == payment_verify(req[1], req[2], req[3], now, sms_ok, sms_ok)
            secret == settings.RAZORPAY_KEY_SECRET
            verified == /\ req[1] # "" /\ req[2] # "" /\ req[3] # <<>> /\ secret # ""
                        /\ req[3] = hmac_sha256(secret, razorpay_message(req[1], req[2]))
        IN  /\ e.response.result = "success" => verified
            /\ e.admissions # admissions => verified
            /\ \A a \in DOMAIN payments :
                   (e.payments[a].status = PAID /\ e.payments[a] # payments[a]) => verified

\* A redirect-verify with a payment id made the Payment Paid under a configured
\* secret.
C30_Witness ==
    /\ response.op = "payment_verify" /\ response.result = "success"
    /\ settings.RAZORPAY_KEY_SECRET # ""
    /\ payments[response.adm].status = PAID
    /\ payments[response.adm].payment_id = "pay_1"
    /\ payments[response.adm].order_id # ""

\* C31: once an Admission's fee_status is Paid, no operation (start_payment,
\* payment_verify, phonepe_callback, phonepe_status_check, admission_success, the
\* admin action mark_paid) sets it back to Pending or changes fee_paid.
C31_FeeStatusNeverRegresses ==
    [][ \A a \in DOMAIN admissions :
            admissions[a].fee_status = PAID
            => /\ admissions'[a].fee_status = PAID
               /\ admissions'[a].fee_paid = admissions[a].fee_paid ]_vars

\* A Paid Admission whose Payment fell back from Paid and for which start_payment
\* then created a new intent: the Admission is Paid with the amount it was paid.
C31_Witness ==
    /\ response.op = "start_payment" /\ response.result \in {"redirect", "checkout"}
    /\ payments[response.adm].status = PENDING
    /\ payments[response.adm].paid_at # None
    /\ admissions[response.adm].fee_status = PAID
    /\ admissions[response.adm].fee_paid = payments[response.adm].amount

\* C32: the admin action mark_paid makes every selected Payment Paid and its
\* Admission Paid, sets paid_at only when it is null and leaves the other Payments
\* alone; admission_success writes paid_at, and nothing else, only for a Payment that
\* is Paid with a null paid_at; neither changes notified_at or sends a notification.
C32_PaidAtOnlyWhenNull ==
    /\ \A queryset \in SUBSET DOMAIN payments :
           LET e == mark_paid(queryset, now) IN
           /\ e.response.attempts = 0 /\ e.response.sent = 0
           /\ \A a \in DOMAIN payments :
                  IF a \in queryset
                  THEN /\ e.payments[a] = [payments[a] EXCEPT
                                              !.status = PAID,
                                              !.paid_at = IF payments[a].paid_at = None
                                                          THEN now ELSE payments[a].paid_at]
                       /\ e.admissions[a].fee_status = PAID
                       /\ e.admissions[a].fee_paid = payments[a].amount
                  ELSE e.payments[a] = payments[a] /\ e.admissions[a] = admissions[a]
    /\ \A a \in DOMAIN admissions :
           LET e == admission_success(a, now) IN
           /\ e.response.attempts = 0 /\ e.response.sent = 0
           /\ e.admissions = admissions
           /\ IF a \in DOMAIN payments /\ payments[a].status = PAID /\ payments[a].paid_at = None
              THEN e.payments = [payments EXCEPT ![a].paid_at = now]
              ELSE e.payments = payments

\* admission_success back-filled paid_at for a Payment that was Paid with a null
\* paid_at (its Admission is still Pending: no reconciliation path and no mark_paid
\* has written it), and sent nothing.
C32_Witness ==
    /\ response.op = "admission_success"
    /\ response.adm \in DOMAIN payments
    /\ payments[response.adm].status = PAID
    /\ payments[response.adm].paid_at = now
    /\ payments[response.adm].notified_at = None
    /\ admissions[response.adm].fee_status = PENDING

====
